---- MODULE Spec2Model ----
(***************************************************************************)
(* l2cs: translation of a compiled whoosh query tree into the Amazon       *)
(* CloudSearch s-expression syntax (src/l2cs.py).                          *)
(*                                                                         *)
(* A clause is a record with a kind (the runtime class of the whoosh       *)
(* query object) and the attributes the renderers read.  A renderer is a   *)
(* generator; its body is modelled as the sequence of things it does in    *)
(* order: yield a string piece, delegate to walk_clause on a child, or     *)
(* raise.  Generators are lazy, so the registry lookup for a child happens *)
(* only when ''.join pulls the traversal that far: the Dispatch action     *)
(* does one such lookup at a time.                                         *)
(***************************************************************************)
EXTENDS Integers, Sequences, FiniteSets, TLC

VARIABLES HANDLERS,    \* the registry: kind -> name of the renderer function
          regs,        \* how many times the handler decorator has been applied
          lastReg,     \* the latest decorator application and how it ended
          int_map,     \* IntNodePlugin's field -> rule table of the parser
          yesno_map,   \* YesNoPlugin's field -> rule table of the parser
          query,       \* per call: the syntax nodes of the query being converted
          parsed,      \* per call: the compiled tree handed to walk_clause
          pc,          \* per call: idle, convert, joining, done, raised
          pending,     \* per call: what the suspended generators still have to do
          out,         \* per call: the pieces ''.join has collected so far
          result,      \* per call: the string returned (meaningful when done)
          exc          \* per call: the exception that ended the call, or "none"

vars == <<HANDLERS, regs, lastReg, int_map, yesno_map, query, parsed, pc,
          pending, out, result, exc>>

(***************************************************************************)
(* Bounds of the model.                                                    *)
(***************************************************************************)
MaxNodes == 4       \* nodes of a compiled tree walked by a single call
MaxConcNodes == 2   \* nodes of each tree when two calls run concurrently
MaxWords == 3       \* words of a phrase
MaxTextLen == 3     \* characters of a word typed by the user
MaxRegs == 3        \* applications of the handler decorator
MaxClasses == 2     \* classes named in one application of the decorator

Calls == {"a", "b"}

(***************************************************************************)
(* Clauses (whoosh.query objects as the renderers see them).               *)
(***************************************************************************)
Term(f, t) == [kind |-> "Term", fieldname |-> f, text |-> t, integer_field |-> FALSE]
IntTerm(f, t) == [kind |-> "Term", fieldname |-> f, text |-> t, integer_field |-> TRUE]
Phrase(f, ws) == [kind |-> "Phrase", fieldname |-> f, words |-> ws, integer_field |-> FALSE]
Prefix(f, t) == [kind |-> "Prefix", fieldname |-> f, text |-> t, integer_field |-> FALSE]
And(qs) == [kind |-> "And", subs |-> qs]
Or(qs) == [kind |-> "Or", subs |-> qs]
Not(q) == [kind |-> "Not", subs |-> <<q>>]
AndNot(a, b) == [kind |-> "AndNot", subs |-> <<a, b>>]
Every == [kind |-> "Every", subs |-> <<>>]
NullQuery == [kind |-> "NullQuery", subs |-> <<>>]

LeafKinds == {"Term", "Phrase", "Prefix"}
GroupKinds == {"And", "Or", "Not"}

\* clause.children()
children(clause) == IF clause.kind \in LeafKinds THEN <<>> ELSE clause.subs

\* clause.__class__.__name__.lower()
LowerName(kind) ==
    CASE kind = "And" -> "and"
      [] kind = "Or" -> "or"
      [] kind = "Not" -> "not"
      [] kind = "AndNot" -> "andnot"
      [] kind = "Term" -> "term"
      [] kind = "Phrase" -> "phrase"
      [] kind = "Prefix" -> "prefix"
      [] kind = "Every" -> "every"
      [] OTHER -> "_nullquery"

(***************************************************************************)
(* What a generator does next.                                             *)
(***************************************************************************)
Yield(s) == [t |-> "yield", s |-> s]
Walk(q) == [t |-> "walk", q |-> q]
Raise(e) == [t |-> "raise", e |-> e]

\* for word in clause.words[:-1]: yield word; yield " "
RECURSIVE WordsButLast(_)
WordsButLast(ws) ==
    IF Len(ws) <= 1 THEN <<>>
    ELSE <<Yield(Head(ws)), Yield(" ")>> \o WordsButLast(Tail(ws))

\* for word in clause.words: yield word; yield " "
RECURSIVE WordsEachSpaced(_)
WordsEachSpaced(ws) ==
    IF ws = <<>> THEN <<>>
    ELSE <<Yield(Head(ws)), Yield(" ")>> \o WordsEachSpaced(Tail(ws))

\* build_field with the phrase loop run over every word, the last included
build_field_trailing(clause) ==
    IF ~clause.integer_field
    THEN <<Yield("(field "), Yield(clause.fieldname), Yield(" '")>>
         \o (IF clause.kind = "Term" THEN <<Yield(clause.text)>>
             ELSE WordsEachSpaced(clause.words))
         \o <<Yield("')")>>
    ELSE <<Yield(clause.fieldname), Yield(":"), Yield(clause.text)>>

\* build_field: the renderer of Term and Phrase
build_field(clause) ==
    IF ~clause.integer_field
    THEN <<Yield("(field "), Yield(clause.fieldname), Yield(" '")>>
         \o (IF clause.kind = "Term" THEN <<Yield(clause.text)>>
             ELSE IF clause.kind = "Phrase"
             THEN WordsButLast(clause.words)
                  \o (IF Len(clause.words) = 0 THEN <<Raise("IndexError")>>
                      ELSE <<Yield(clause.words[Len(clause.words)])>>)
             ELSE <<>>)
         \o <<Yield("')")>>
    ELSE <<Yield(clause.fieldname), Yield(":"), Yield(clause.text)>>

\* for child_clause in clause.children(): yield " "; walk_clause(child_clause)
RECURSIVE EachChild(_)
EachChild(qs) ==
    IF qs = <<>> THEN <<>>
    ELSE <<Yield(" "), Walk(Head(qs))>> \o EachChild(Tail(qs))

RECURSIVE Reversed(_)
Reversed(qs) == IF qs = <<>> THEN <<>> ELSE Append(Reversed(Tail(qs)), Head(qs))

\* build_grouper walking the children last to first
build_grouper_reversed(clause) ==
    <<Yield("("), Yield(LowerName(clause.kind))>>
    \o EachChild(Reversed(children(clause)))
    \o <<Yield(")")>>

\* build_grouper: the renderer of And, Or and Not
build_grouper(clause) ==
    <<Yield("("), Yield(LowerName(clause.kind))>>
    \o EachChild(children(clause))
    \o <<Yield(")")>>

\* build_compound closing only the inner group
build_compound_unclosed(clause) ==
    IF Len(children(clause)) # 2
    THEN <<Yield("(and "), Raise("ValueError")>>
    ELSE LET use == children(clause)[1]
             avoid == children(clause)[2]
         IN <<Yield("(and "), Walk(use), Yield(" (not "), Walk(avoid), Yield(")")>>

\* build_compound: the renderer of AndNot
build_compound(clause) ==
    IF Len(children(clause)) # 2
    THEN <<Yield("(and "), Raise("ValueError")>>
    ELSE LET use == children(clause)[1]
             avoid == children(clause)[2]
         IN <<Yield("(and "), Walk(use), Yield(" (not "), Walk(avoid), Yield("))")>>

\* handler_fn(clause), for the function registered under the name fn
Apply(fn, clause) ==
    CASE fn = "build_field" -> build_field(clause)
      [] fn = "build_grouper" -> build_grouper(clause)
      [] OTHER -> build_compound(clause)

(***************************************************************************)
(* The registry and the handler decorator.                                 *)
(***************************************************************************)
NoHandlers == [k \in {} |-> "none"]

\* for cls in classes: HANDLERS[cls] = fn, with no look at what is there
RECURSIVE handler_overwriting(_, _, _)
handler_overwriting(h, classes, fn) ==
    IF classes = <<>> THEN [h |-> h, raised |-> FALSE]
    ELSE handler_overwriting([k \in DOMAIN h \cup {Head(classes)} |->
                                 IF k = Head(classes) THEN fn ELSE h[k]],
                             Tail(classes), fn)

\* for cls in classes: if cls in HANDLERS: raise ValueError; HANDLERS[cls] = fn
RECURSIVE handler(_, _, _)
handler(h, classes, fn) ==
    IF classes = <<>> THEN [h |-> h, raised |-> FALSE]
    ELSE IF Head(classes) \in DOMAIN h THEN [h |-> h, raised |-> TRUE]
    ELSE handler(h @@ (Head(classes) :> fn), Tail(classes), fn)

\* The three decorated definitions of the module, in source order.
Decorations ==
    << [classes |-> <<"Term", "Phrase">>, fn |-> "build_field"],
       [classes |-> <<"And", "Or", "Not">>, fn |-> "build_grouper"],
       [classes |-> <<"AndNot">>, fn |-> "build_compound"] >>

RECURSIVE Decorate(_, _)
Decorate(h, ds) ==
    IF ds = <<>> THEN h
    ELSE Decorate(handler(h, Head(ds).classes, Head(ds).fn).h, Tail(ds))

\* HANDLERS once the module has been imported
ImportedHandlers == Decorate(NoHandlers, Decorations)

(***************************************************************************)
(* walk_clause and ''.join.                                                *)
(***************************************************************************)
RECURSIVE Concat(_)
Concat(pieces) == IF pieces = <<>> THEN "" ELSE Head(pieces) \o Concat(Tail(pieces))

\* Run the generators up to their next registry lookup (or raise, or end),
\* collecting the pieces they yield on the way.
RECURSIVE Drain(_, _)
Drain(items, acc) ==
    IF items # <<>> /\ Head(items).t = "yield"
    THEN Drain(Tail(items), Append(acc, Head(items).s))
    ELSE [pending |-> items, out |-> acc]

\* ''.join(walk_clause(clause)) under registry h, run to its end in one go:
\* the pieces collected, and the exception that cut the traversal short.
RECURSIVE Run(_, _, _)
Run(h, items, acc) ==
    IF items = <<>> THEN [exc |-> "none", pieces |-> acc]
    ELSE LET it == Head(items) IN
         CASE it.t = "yield" -> Run(h, Tail(items), Append(acc, it.s))
           [] it.t = "raise" -> [exc |-> it.e, pieces |-> acc]
           [] OTHER ->
                IF it.q.kind \in DOMAIN h
                THEN Run(h, Apply(h[it.q.kind], it.q) \o Tail(items), acc)
                ELSE [exc |-> "KeyError", pieces |-> acc]

walk_clause(h, clause) == Run(h, <<Walk(clause)>>, <<>>)

(***************************************************************************)
(* The compiled trees a call may be given.                                 *)
(***************************************************************************)
Fields == {"text", "foo"}
Words == {"foo", "it's", "a)(b"}

SeqsUpTo(S, n) == UNION {[1..k -> S] : k \in 0..n}

\* Leaves used below a group.
InnerLeaves ==
    { Term("text", "foo"), IntTerm("count", "7"), Phrase("text", <<"foo", "bar">>),
      Phrase("text", <<>>), Prefix("text", "foo") }

\* Leaves and childless kinds used as a whole tree.
RootLeaves ==
    {Term(f, w) : f \in Fields, w \in Words}
    \cup {IntTerm(f, n) : f \in {"count", "is_active"}, n \in {"0", "1", "-12"}}
    \cup {Phrase(f, ws) : f \in Fields, ws \in SeqsUpTo(Words, MaxWords)}
    \cup {Prefix("text", "foo"), Every, NullQuery}

\* Leaves used by the calls that run concurrently.
ConcLeaves == { Term("text", "foo"), Phrase("text", <<>>), Prefix("text", "foo") }

RECURSIVE Sized(_, _), Forest(_, _)
\* the trees of exactly n nodes over the leaves L
Sized(L, n) ==
    IF n = 1 THEN L \cup {And(<<>>), Or(<<>>)}
    ELSE {And(f) : f \in Forest(L, n - 1)}
         \cup {Or(f) : f \in Forest(L, n - 1)}
         \cup {Not(f[1]) : f \in {g \in Forest(L, n - 1) : Len(g) = 1}}
         \cup {AndNot(f[1], f[2]) : f \in {g \in Forest(L, n - 1) : Len(g) = 2}}
\* the sequences of trees of m nodes in all
Forest(L, m) ==
    IF m = 0 THEN {<<>>}
    ELSE UNION { {<<t>> \o f : t \in Sized(L, k), f \in Forest(L, m - k)} : k \in 1..m }

Trees(L, n) == UNION {Sized(L, k) : k \in 1..n}

Universe == RootLeaves \cup Trees(InnerLeaves, MaxNodes)
ConcUniverse == Trees(ConcLeaves, MaxConcNodes)

(***************************************************************************)
(* One translation call.                                                   *)
(***************************************************************************)
NoQuery == [op |-> "And", nodes |-> <<>>]

\* pieces = walk_clause(parsed): the generator is created, nothing has run yet
WalkClause(c) ==
    /\ pc[c] = "called"
    /\ pc' = [pc EXCEPT ![c] = "joining"]
    /\ pending' = [pending EXCEPT ![c] = <<Walk(parsed[c])>>]
    /\ UNCHANGED <<HANDLERS, regs, lastReg, int_map, yesno_map, query, parsed,
                   out, result, exc>>

\* handler_fn = HANDLERS[clause.__class__], for a registered class; the
\* renderer then runs up to its next delegation
Dispatch(c) ==
    /\ pc[c] = "joining"
    /\ pending[c] # <<>>
    /\ Head(pending[c]).t = "walk"
    /\ Head(pending[c]).q.kind \in DOMAIN HANDLERS
    /\ LET q == Head(pending[c]).q
           d == Drain(Apply(HANDLERS[q.kind], q) \o Tail(pending[c]), out[c])
       IN /\ pending' = [pending EXCEPT ![c] = d.pending]
          /\ out' = [out EXCEPT ![c] = d.out]
    /\ UNCHANGED <<HANDLERS, regs, lastReg, int_map, yesno_map, query, parsed,
                   pc, result, exc>>

\* HANDLERS.get(clause.__class__): a class without a renderer renders to nothing
UnsupportedSkipped(c) ==
    /\ pc[c] = "joining"
    /\ pending[c] # <<>>
    /\ Head(pending[c]).t = "walk"
    /\ Head(pending[c]).q.kind \notin DOMAIN HANDLERS
    /\ LET d == Drain(Tail(pending[c]), out[c])
       IN /\ pending' = [pending EXCEPT ![c] = d.pending]
          /\ out' = [out EXCEPT ![c] = d.out]
    /\ UNCHANGED <<HANDLERS, regs, lastReg, int_map, yesno_map, query, parsed,
                   pc, result, exc>>

\* HANDLERS.setdefault(clause.__class__, build_field): a class without a
\* renderer is given the field renderer, and the lookup then succeeds
UnsupportedDefaulted(c) ==
    /\ pc[c] = "joining"
    /\ pending[c] # <<>>
    /\ Head(pending[c]).t = "walk"
    /\ Head(pending[c]).q.kind \notin DOMAIN HANDLERS
    /\ HANDLERS' = HANDLERS @@ (Head(pending[c]).q.kind :> "build_field")
    /\ UNCHANGED <<regs, lastReg, int_map, yesno_map, query, parsed, pc,
                   pending, out, result, exc>>

\* HANDLERS[clause.__class__] for a class that is not a key: KeyError
Unsupported(c) ==
    /\ pc[c] = "joining"
    /\ pending[c] # <<>>
    /\ Head(pending[c]).t = "walk"
    /\ Head(pending[c]).q.kind \notin DOMAIN HANDLERS
    /\ pc' = [pc EXCEPT ![c] = "raised"]
    /\ exc' = [exc EXCEPT ![c] = "KeyError"]
    /\ UNCHANGED <<HANDLERS, regs, lastReg, int_map, yesno_map, query, parsed,
                   pending, out, result>>

\* a renderer raises (clause.words[-1] of an empty phrase, a failed unpacking)
RendererRaises(c) ==
    /\ pc[c] = "joining"
    /\ pending[c] # <<>>
    /\ Head(pending[c]).t = "raise"
    /\ pc' = [pc EXCEPT ![c] = "raised"]
    /\ exc' = [exc EXCEPT ![c] = Head(pending[c]).e]
    /\ UNCHANGED <<HANDLERS, regs, lastReg, int_map, yesno_map, query, parsed,
                   pending, out, result>>

\* the generator is exhausted: return ''.join(pieces)
Return(c) ==
    /\ pc[c] = "joining"
    /\ pending[c] = <<>>
    /\ pc' = [pc EXCEPT ![c] = "done"]
    /\ result' = [result EXCEPT ![c] = Concat(out[c])]
    /\ UNCHANGED <<HANDLERS, regs, lastReg, int_map, yesno_map, query, parsed,
                   pending, out, exc>>

Translate(c) ==
    WalkClause(c) \/ Dispatch(c) \/ Unsupported(c) \/ RendererRaises(c) \/ Return(c)

\* make_parser(): the default field tables
DefaultIntFields == {"count", "number"}
DefaultYesNoFields == {"is_active", "is_ready"}

Imported ==
    /\ HANDLERS = ImportedHandlers
    /\ regs = Len(Decorations)
    /\ lastReg = [classes |-> <<"AndNot">>, fn |-> "build_compound", raised |-> FALSE,
                  before |-> {"Term", "Phrase", "And", "Or", "Not"}]
    /\ int_map = [f \in DefaultIntFields |-> "IntNodePlugin.modify_node"]
    /\ yesno_map = [f \in DefaultYesNoFields |-> "YesNoPlugin.modify_node"]

Idle ==
    /\ pending = [c \in Calls |-> <<>>]
    /\ out = [c \in Calls |-> <<>>]
    /\ result = [c \in Calls |-> ""]
    /\ exc = [c \in Calls |-> "none"]

\* One call, on any tree of the universe.
Init ==
    /\ Imported
    /\ Idle
    /\ query = [c \in Calls |-> NoQuery]
    /\ \E t \in Universe : parsed = [c \in Calls |-> IF c = "a" THEN t ELSE NullQuery]
    /\ pc = [c \in Calls |-> IF c = "a" THEN "called" ELSE "idle"]

Next == Translate("a")

Spec == Init /\ [][Next]_vars

\* Two concurrent calls, each on a tree of its own.
InitConc ==
    /\ Imported
    /\ Idle
    /\ query = [c \in Calls |-> NoQuery]
    /\ parsed \in [Calls -> ConcUniverse]
    /\ pc = [c \in Calls |-> "called"]

NextConc == \E c \in Calls : Translate(c)

SpecConc == InitConc /\ [][NextConc]_vars

(***************************************************************************)
(* Registration: the handler decorator applied to any classes, starting    *)
(* from the empty registry.                                                *)
(***************************************************************************)
RegKinds == {"Term", "And"}
Renderers == {"build_field", "build_grouper", "build_compound"}

\* @handler(classes) applied to fn: the whole loop, up to its return or raise
Register(classes, fn) ==
    /\ regs < MaxRegs
    /\ LET r == handler(HANDLERS, classes, fn)
       IN /\ HANDLERS' = r.h
          /\ lastReg' = [classes |-> classes, fn |-> fn, raised |-> r.raised,
                         before |-> DOMAIN HANDLERS]
    /\ regs' = regs + 1
    /\ UNCHANGED <<int_map, yesno_map, query, parsed, pc, pending, out, result, exc>>

InitHandler ==
    /\ HANDLERS = NoHandlers
    /\ regs = 0
    /\ lastReg = [classes |-> <<>>, fn |-> "none", raised |-> FALSE, before |-> {}]
    /\ int_map = [f \in DefaultIntFields |-> "IntNodePlugin.modify_node"]
    /\ yesno_map = [f \in DefaultYesNoFields |-> "YesNoPlugin.modify_node"]
    /\ Idle
    /\ query = [c \in Calls |-> NoQuery]
    /\ parsed = [c \in Calls |-> NullQuery]
    /\ pc = [c \in Calls |-> "idle"]

NextHandler ==
    \E classes \in SeqsUpTo(RegKinds, MaxClasses), fn \in Renderers : Register(classes, fn)

SpecHandler == InitHandler /\ [][NextHandler]_vars

(***************************************************************************)
(* convert: the coercion rules at parse time, then the walk.               *)
(*                                                                         *)
(* A syntax node carries its text as a sequence of characters.  The        *)
(* parser's part is whoosh's: PseudoFieldPlugin hands the node that        *)
(* follows a listed field name to the rule and leaves the node out when    *)
(* the rule returns None; an operator left without an operand is removed;  *)
(* a group left with one node compiles to that node's query, a group left  *)
(* with none to NullQuery.                                                 *)
(***************************************************************************)
Alphabet == {"y", "e", "s", "Y", "1", "0", "-", " "}
DigitChars == <<"0", "1", "2", "3", "4", "5", "6", "7", "8", "9">>

IsDigit(ch) == \E i \in 1..Len(DigitChars) : DigitChars[i] = ch
DigitValue(ch) == (CHOOSE i \in 1..Len(DigitChars) : DigitChars[i] = ch) - 1

RECURSIVE StripLeft(_)
StripLeft(t) == IF t # <<>> /\ Head(t) = " " THEN StripLeft(Tail(t)) ELSE t
RECURSIVE StripRight(_)
StripRight(t) ==
    IF t # <<>> /\ t[Len(t)] = " " THEN StripRight(SubSeq(t, 1, Len(t) - 1)) ELSE t
Strip(t) == StripRight(StripLeft(t))

\* the digits part: what follows the sign, the blanks after the sign skipped
\* (Python 2's int skips blanks again once it has read the sign)
Unsigned(t) == IF t # <<>> /\ Head(t) \in {"-", "+"} THEN StripLeft(Tail(t)) ELSE t

\* int(text) does not raise ValueError: optional blanks, an optional sign,
\* optional blanks, one or more decimal digits, optional blanks
PyIsInt(t) ==
    LET d == Unsigned(Strip(t))
    IN d # <<>> /\ \A i \in 1..Len(d) : IsDigit(d[i])

RECURSIVE DigitsValue(_, _)
DigitsValue(d, acc) ==
    IF d = <<>> THEN acc ELSE DigitsValue(Tail(d), 10 * acc + DigitValue(Head(d)))

\* int(text)
PyInt(t) ==
    LET b == Strip(t)
        v == DigitsValue(Unsigned(b), 0)
    IN IF Head(b) = "-" THEN 0 - v ELSE v

RECURSIVE NatChars(_)
NatChars(n) ==
    IF n < 10 THEN <<DigitChars[n + 1]>>
    ELSE Append(NatChars(n \div 10), DigitChars[(n % 10) + 1])

\* str(n)
PyStr(n) == IF n < 0 THEN <<"-">> \o NatChars(0 - n) ELSE NatChars(n)

WordNode(f, t) == [kind |-> "WordNode", has_text |-> TRUE, fieldname |-> f, text |-> t,
                   integer_field |-> FALSE]
PrefixNode(f, t) == [kind |-> "PrefixNode", has_text |-> TRUE, fieldname |-> f, text |-> t,
                     integer_field |-> FALSE]
EveryNode == [kind |-> "EveryNode", has_text |-> FALSE, fieldname |-> "*", text |-> <<>>,
              integer_field |-> FALSE]
None == [kind |-> "None", has_text |-> FALSE, fieldname |-> "", text |-> <<>>,
         integer_field |-> FALSE]

\* IntNode(value) with set_fieldname: a word node whose text is str(int(value))
\* and whose query is tagged integer_field
IntNode(f, n) == [kind |-> "IntNode", has_text |-> TRUE, fieldname |-> f, text |-> PyStr(n),
                  integer_field |-> TRUE]

\* IntNodePlugin.modify_node
IntNodePlugin_modify_node(fieldname, node) ==
    IF node.has_text
    THEN IF PyIsInt(node.text) THEN IntNode(fieldname, PyInt(node.text)) ELSE None
    ELSE node

LowerChar(ch) == IF ch = "Y" THEN "y" ELSE ch

\* YesNoPlugin.modify_node testing node.text.lower()
YesNoPlugin_modify_node_anycase(fieldname, node) ==
    IF node.has_text
    THEN IF [i \in 1..Len(node.text) |-> LowerChar(node.text[i])]
               \in {<<"y", "e", "s">>, <<"y">>, <<"1">>}
         THEN IntNode(fieldname, 1)
         ELSE IntNode(fieldname, 0)
    ELSE node

\* YesNoPlugin.modify_node
YesNoPlugin_modify_node(fieldname, node) ==
    IF node.has_text
    THEN IF node.text \in {<<"y", "e", "s">>, <<"y">>, <<"1">>}
         THEN IntNode(fieldname, 1)
         ELSE IntNode(fieldname, 0)
    ELSE node

\* the rule tables looked up by the field name in front of the node
Coerce(ints, yesnos, node) ==
    IF node.fieldname \in DOMAIN ints THEN IntNodePlugin_modify_node(node.fieldname, node)
    ELSE IF node.fieldname \in DOMAIN yesnos
    THEN YesNoPlugin_modify_node(node.fieldname, node)
    ELSE node

\* the nodes after the rules, the dropped ones left out
RECURSIVE Filtered(_, _, _)
Filtered(ints, yesnos, nodes) ==
    IF nodes = <<>> THEN <<>>
    ELSE LET n == Coerce(ints, yesnos, Head(nodes))
         IN (IF n = None THEN <<>> ELSE <<n>>) \o Filtered(ints, yesnos, Tail(nodes))

\* node.query(parser)
NodeQuery(node) ==
    CASE node.kind = "PrefixNode" -> Prefix(node.fieldname, Concat(node.text))
      [] node.kind = "EveryNode" -> Every
      [] OTHER -> [kind |-> "Term", fieldname |-> node.fieldname,
                   text |-> Concat(node.text), integer_field |-> node.integer_field]

RECURSIVE NodeQueries(_)
NodeQueries(nodes) ==
    IF nodes = <<>> THEN <<>> ELSE <<NodeQuery(Head(nodes))>> \o NodeQueries(Tail(nodes))

\* parser.parse(query)
Compile(ints, yesnos, q) ==
    LET left == Filtered(ints, yesnos, q.nodes)
    IN IF left = <<>> THEN NullQuery
       ELSE IF Len(left) = 1 THEN NodeQuery(left[1])
       ELSE [kind |-> q.op, subs |-> NodeQueries(left)]

\* parser = make_parser(); parsed = parser.parse(query)
Parse(c) ==
    /\ pc[c] = "convert"
    /\ parsed' = [parsed EXCEPT ![c] = Compile(int_map, yesno_map, query[c])]
    /\ pc' = [pc EXCEPT ![c] = "called"]
    /\ UNCHANGED <<HANDLERS, regs, lastReg, int_map, yesno_map, query, pending,
                   out, result, exc>>

\* The queries converted: one field:word clause, alone or beside another
\* clause under AND or OR.
Texts == UNION {[1..k -> Alphabet] : k \in 1..MaxTextLen}
ProbeFields == {"count", "is_active", "text"}
Probes == {WordNode(f, t) : f \in ProbeFields, t \in Texts}
Foo == WordNode("text", <<"f", "o", "o">>)
Companions == {Foo, PrefixNode("text", <<"f", "o", "o">>), EveryNode}

Queries ==
    {[op |-> "And", nodes |-> <<p>>] : p \in Probes \cup Companions}
    \cup {[op |-> "And", nodes |-> <<Foo, p>>] : p \in Probes}
    \cup {[op |-> "Or", nodes |-> <<p, Foo>>] : p \in Probes}

InitConvert ==
    /\ Imported
    /\ Idle
    /\ \E q \in Queries : query = [c \in Calls |-> IF c = "a" THEN q ELSE NoQuery]
    /\ parsed = [c \in Calls |-> NullQuery]
    /\ pc = [c \in Calls |-> IF c = "a" THEN "convert" ELSE "idle"]

NextConvert ==
    \/ Parse("a")
    \/ WalkClause("a")
    \/ Dispatch("a")
    \/ Unsupported("a")
    \/ Return("a")

SpecConvert == InitConvert /\ [][NextConvert]_vars

(***************************************************************************)
(* The output grammar, as the specification states it.                     *)
(***************************************************************************)
Final(c) == pc[c] \in {"done", "raised"}

RECURSIVE Subtrees(_)
Subtrees(q) ==
    {q} \cup UNION {Subtrees(children(q)[i]) : i \in 1..Len(children(q))}

KindWord == ("And" :> "and") @@ ("Or" :> "or") @@ ("Not" :> "not")

\* the words of a phrase, a single space between neighbours
RECURSIVE Joined(_)
Joined(ws) ==
    IF Len(ws) = 1 THEN ws[1] ELSE ws[1] \o " " \o Joined(Tail(ws))

RECURSIVE Rendering(_), SpacedRenderings(_)
Rendering(q) ==
    CASE q.kind = "Term" /\ q.integer_field -> q.fieldname \o ":" \o q.text
      [] q.kind = "Term" /\ ~q.integer_field ->
            "(field " \o q.fieldname \o " '" \o q.text \o "')"
      [] q.kind = "Phrase" ->
            "(field " \o q.fieldname \o " '" \o Joined(q.words) \o "')"
      [] q.kind \in GroupKinds ->
            "(" \o KindWord[q.kind] \o SpacedRenderings(q.subs) \o ")"
      [] q.kind = "AndNot" ->
            "(and " \o Rendering(q.subs[1]) \o " (not " \o Rendering(q.subs[2]) \o "))"
SpacedRenderings(qs) ==
    IF qs = <<>> THEN "" ELSE " " \o Rendering(Head(qs)) \o SpacedRenderings(Tail(qs))

UntypedLeaf(q) ==
    /\ q.kind \in {"Term", "Phrase"}
    /\ ~q.integer_field
    /\ q.kind = "Phrase" => Len(q.words) >= 1

\* C1: a rendered AND-NOT node reads "(and <keep> (not <exclude>))", the very
\* string the AND group of keep and a NOT group of exclude renders to.
C1_Decomposition ==
    \A c \in Calls :
        (pc[c] = "done" /\ parsed[c].kind = "AndNot") =>
            LET keep == parsed[c].subs[1]
                exclude == parsed[c].subs[2]
                grouped == walk_clause(HANDLERS, And(<<keep, Not(exclude)>>))
                k == walk_clause(HANDLERS, keep)
                e == walk_clause(HANDLERS, exclude)
            IN /\ grouped.exc = "none"
               /\ result[c] = Concat(grouped.pieces)
               /\ result[c] = "(and " \o Concat(k.pieces) \o " (not "
                                \o Concat(e.pieces) \o "))"

C1_Witness ==
    \E c \in Calls :
        /\ pc[c] = "done"
        /\ parsed[c].kind = "AndNot"
        /\ parsed[c].subs[1].kind \in GroupKinds
        /\ parsed[c].subs[1].subs # <<>>

\* C2: an untyped Term or Phrase (of one or more words) renders to
\* (field <fieldname> '<value>'), the value being the text, or the words in
\* order with single spaces between them, copied without escaping.
C2_UntypedLeaf ==
    \A c \in Calls :
        (Final(c) /\ UntypedLeaf(parsed[c])) =>
            /\ pc[c] = "done"
            /\ result[c] = "(field " \o parsed[c].fieldname \o " '"
                             \o (IF parsed[c].kind = "Term" THEN parsed[c].text
                                 ELSE Joined(parsed[c].words))
                             \o "')"

C2_Witness ==
    \E c \in Calls :
        /\ pc[c] = "done"
        /\ parsed[c].kind = "Phrase"
        /\ Len(parsed[c].words) >= 3
        /\ parsed[c].words[1] = "it's"
        /\ parsed[c].words[2] = "a)(b"

\* C5: a rendered And, Or or Not group reads "(" kind-in-lower-case, then a
\* space and the rendering of each child in the children's own order, ")";
\* the children's renderings obey the same rule at every depth.
C5_GroupOrder ==
    \A c \in Calls :
        (pc[c] = "done" /\ parsed[c].kind \in GroupKinds) =>
            result[c] = "(" \o KindWord[parsed[c].kind]
                            \o SpacedRenderings(parsed[c].subs) \o ")"

C5_Witness ==
    \E c \in Calls :
        /\ pc[c] = "done"
        /\ parsed[c].kind = "Or"
        /\ Len(parsed[c].subs) = 2
        /\ parsed[c].subs[1].kind = "Not"
        /\ parsed[c].subs[2].kind = "Term"
        /\ parsed[c].subs[1].subs[1] # parsed[c].subs[2]

Unsupportable(q) == \E n \in Subtrees(q) : n.kind \notin DOMAIN HANDLERS
EmptyPhrase(q) == \E n \in Subtrees(q) : n.kind = "Phrase" /\ n.words = <<>>

\* C7: a call whose tree holds a node of a kind without a renderer never
\* returns a string; when the traversal gets to such a node the call ends
\* with the lookup's KeyError, the pieces collected so far are not returned.
C7_UnsupportedClause ==
    \A c \in Calls :
        /\ pc[c] = "done" => ~Unsupportable(parsed[c])
        /\ exc[c] = "KeyError" => (pc[c] = "raised" /\ result[c] = "")
        /\ (Final(c) /\ Unsupportable(parsed[c]) /\ ~EmptyPhrase(parsed[c])) =>
                (pc[c] = "raised" /\ exc[c] = "KeyError" /\ result[c] = "")

C7_Witness ==
    \E c \in Calls :
        /\ pc[c] = "raised"
        /\ exc[c] = "KeyError"
        /\ parsed[c].kind = "And"
        /\ Len(out[c]) > 3
        /\ result[c] = ""

EmptyGroup(q) == \E n \in Subtrees(q) : n.kind \in GroupKinds /\ n.subs = <<>>

\* C10: a group without operands is refused: no call whose tree holds one
\* returns a string.
C10_EmptyGroupRefused ==
    \A c \in Calls : pc[c] = "done" => ~EmptyGroup(parsed[c])

\* C8: an application of the decorator that names a class already in the
\* registry (or names a class twice) ends in an error, and no application,
\* failed or not, changes or removes an entry the registry already has.
C8_FirstRegistrationKept ==
    [][ /\ \A k \in DOMAIN HANDLERS : k \in DOMAIN HANDLERS' /\ HANDLERS'[k] = HANDLERS[k]
        /\ regs' = regs + 1 =>
              LET cs == lastReg'.classes
              IN (\E i \in 1..Len(cs) :
                      \/ cs[i] \in DOMAIN HANDLERS
                      \/ \E j \in 1..(i - 1) : cs[j] = cs[i]) => lastReg'.raised
      ]_vars

C8_Witness ==
    /\ lastReg.raised
    /\ Len(lastReg.classes) = 2
    /\ lastReg.classes[1] \notin lastReg.before
    /\ lastReg.classes[2] \in lastReg.before
    /\ HANDLERS[lastReg.classes[1]] = lastReg.fn
    /\ HANDLERS[lastReg.classes[2]] # lastReg.fn

\* C9: no step of a translation call writes the registry or the rule tables,
\* and under every interleaving of two calls each call ends as it ends when
\* run alone on its tree: same string, or same exception.
C9_NoSharedWrites ==
    [][ /\ HANDLERS' = HANDLERS
        /\ int_map' = int_map
        /\ yesno_map' = yesno_map
        /\ \A c \in Calls :
              pc'[c] \in {"done", "raised"} =>
                  LET alone == walk_clause(ImportedHandlers, parsed'[c])
                  IN /\ pc'[c] = "done" <=> alone.exc = "none"
                     /\ pc'[c] = "done" => result'[c] = Concat(alone.pieces)
                     /\ pc'[c] = "raised" => exc'[c] = alone.exc
      ]_vars

C9_Witness ==
    /\ pc["a"] = "joining"
    /\ out["a"] # <<>>
    /\ pending["a"] # <<>>
    /\ pc["b"] = "done"
    /\ parsed["b"].kind = "Or"
    /\ parsed["b"] # parsed["a"]

(***************************************************************************)
(* What convert is to return for the queries of SpecConvert.               *)
(***************************************************************************)
YesTexts == {<<"y", "e", "s">>, <<"y">>, <<"1">>}
FooOut == "(field text 'foo')"
Absent == ""

\* the clause the query is about
Probe(q) == q.nodes[CHOOSE i \in 1..Len(q.nodes) : q.nodes[i] # Foo \/ Len(q.nodes) = 1]
OnField(q, fs) ==
    q.nodes # <<>> /\ Probe(q).kind = "WordNode" /\ Probe(q).fieldname \in fs

\* the probe's own token in the output
ProbeOut(p) ==
    IF p.fieldname \in DefaultYesNoFields
    THEN p.fieldname \o ":" \o (IF p.text \in YesTexts THEN "1" ELSE "0")
    ELSE IF p.fieldname \in DefaultIntFields
    THEN (IF PyIsInt(p.text) THEN p.fieldname \o ":" \o ToString(PyInt(p.text)) ELSE Absent)
    ELSE "(field " \o p.fieldname \o " '" \o Concat(p.text) \o "')"

\* the whole output: a clause beside an absent one stands alone
Expected(q) ==
    LET p == ProbeOut(Probe(q))
    IN IF Len(q.nodes) = 1 THEN p
       ELSE IF p = Absent THEN FooOut
       ELSE IF q.nodes[1] = Foo THEN "(" \o KindWord[q.op] \o " " \o FooOut \o " " \o p \o ")"
       ELSE "(" \o KindWord[q.op] \o " " \o p \o " " \o FooOut \o ")"

\* C3: on an integer field, a word that is an integer is rendered
\* <field>:<decimal>, and a word that is not leaves nothing behind: the call
\* still returns, with the rest of the query, or with nothing when the word
\* was the whole query.
C3_TypeTagDeterminism ==
    \A c \in Calls :
        (Final(c) /\ OnField(query[c], DefaultIntFields)) =>
            /\ pc[c] = "done"
            /\ result[c] = Expected(query[c])

\* C3, the part that stands: the same, the query that is nothing but one
\* dropped word left aside.
C3_ExceptSoleDroppedClause ==
    \A c \in Calls :
        (Final(c) /\ OnField(query[c], DefaultIntFields)
                  /\ ~(Len(query[c].nodes) = 1 /\ ~PyIsInt(Probe(query[c]).text))) =>
            /\ pc[c] = "done"
            /\ result[c] = Expected(query[c])

\* C4: on a yes/no field every word is kept and becomes the typed leaf 1 (for
\* yes, y, 1 exactly) or 0; the call returns <field>:1 or <field>:0 in the
\* word's place.
C4_YesNoTotality ==
    \A c \in Calls :
        OnField(query[c], DefaultYesNoFields) =>
            LET p == Probe(query[c])
                v == IF p.text \in YesTexts THEN "1" ELSE "0"
            IN /\ pc[c] # "raised"
               /\ pc[c] # "convert" => IntTerm(p.fieldname, v) \in Subtrees(parsed[c])
               /\ pc[c] = "done" => result[c] = Expected(query[c])

C4_Witness ==
    \E c \in Calls :
        /\ pc[c] = "done"
        /\ query[c].nodes = <<Foo, WordNode("is_active", <<"Y">>)>>
        /\ result[c] = "(and (field text 'foo') is_active:0)"

\* C6: every node of every tree the parser compiles is of a kind that has a
\* renderer in the registry.
C6_DispatchExhaustive ==
    \A c \in Calls :
        pc[c] \in {"called", "joining", "done", "raised"} =>
            \A n \in Subtrees(parsed[c]) : n.kind \in DOMAIN HANDLERS

====
